---------------------------- MODULE Spec2Model ----------------------------
(***************************************************************************)
(* Model of four parts of the editor:                                      *)
(*   - AssetsBrowserVideoMoveHandler   (files/move/video.ts)               *)
(*   - DefaultScene.CreateLabel        (editor/tools/default-scene.ts)     *)
(*   - RenderingInspector              (inspectors/rendering-inspector.tsx)*)
(*   - ScriptInspector                 (inspectors/script-inspector.tsx)   *)
(* Each part has its own specification; the variables of the other parts   *)
(* stay at their initial values.                                           *)
(*                                                                         *)
(* Strings the code slices, joins or searches are sequences of one-        *)
(* character strings, so that path.join, String.replace, extname, ... are  *)
(* computed as Node computes them.                                         *)
(***************************************************************************)
EXTENDS Integers, Sequences, FiniteSets, TLC

VARIABLES
    \* ---- AssetsBrowserVideoMoveHandler
    assetsDirectory,   \* this._editor.assetsBrowser.assetsDirectory
    textures,          \* this._editor.scene.textures
    videoCall,         \* the last call of the handler: arguments, result, textures before
    \* ---- DefaultScene.CreateLabel
    controls,          \* every GUI control created so far; a control is known by its index
    guiChildren,       \* the controls of the gui's root container, in order
    labelCall,         \* the last call of CreateLabel: arguments, result, the gui before
    \* ---- RenderingInspector
    pipelineEnabled,   \* what SceneSettings.IsDefaultPipelineEnabled() returns
    DefaultPipeline,   \* SceneSettings.DefaultPipeline: <<>> (null) or <<its flags>>
    stateDefault,      \* this.state.default
    renderedPipeline,  \* whether the last render found a DefaultPipeline to bind widgets to
    renderingCall,     \* the last operation on the inspector
    \* ---- ScriptInspector: the rendering of the exported values
    scriptName,        \* this.selectedObject.metadata.script.name
    inspectorValues,   \* this.state.inspectorValues
    scriptProperties,  \* this.selectedObject.metadata.script.properties: <<>> (undefined) or <<map>>
    exportedSection,   \* what _getInspectorValues last returned, and the properties before
    \* ---- ScriptInspector: refreshing the script
    lifecycle,         \* "constructed", "mounted" (isMounted) or "unmounted"
    refresing,         \* this.state.refresing
    scripts,           \* this.state.scripts
    scriptWatcher,     \* this._scriptWatcher: <<>> (null) or <<[path, open]>>
    leakedWatchers,    \* the paths of the open watchers nothing refers to any more
    runs,              \* the calls of _updateScriptVisibleProperties, one slot each: where
                       \* it is, what called it, its jsPath, whether its
                       \* _refreshDecorators has completed
    pendingRefreshes,  \* the calls of refreshAvailableScripts awaiting GetAllScripts
    workspaceScripts,  \* what ScriptAssets.GetAllScripts() resolves to
    files,             \* the compiled files that exist under <workspace>/build
    observed           \* the paths pathExists has answered true for

videoVars == <<assetsDirectory, textures, videoCall>>

labelVars == <<controls, guiChildren, labelCall>>

renderingVars ==
    <<pipelineEnabled, DefaultPipeline, stateDefault, renderedPipeline, renderingCall>>

exportVars == <<scriptProperties, exportedSection>>

scriptVars ==
    <<scriptName, inspectorValues, lifecycle, refresing, scripts, scriptWatcher,
      leakedWatchers, runs, pendingRefreshes, workspaceScripts, files, observed>>

vars == <<videoVars, labelVars, renderingVars, exportVars, scriptVars>>

-----------------------------------------------------------------------------
(* Strings as sequences of characters.                                     *)

Last(s) == s[Len(s)]

Front(s) == SubSeq(s, 1, Len(s) - 1)

\* All sequences over S of length lo..hi.
SeqsOf(S, lo, hi) == UNION { [1..n -> S] : n \in lo..hi }

\* String.prototype.indexOf(pat): 0-based index of the first occurrence, -1 if none.
IndexOf(s, pat) ==
    LET hits == { i \in 1..(Len(s) - Len(pat) + 1) : SubSeq(s, i, i + Len(pat) - 1) = pat }
    IN  IF hits = {} THEN -1
        ELSE (CHOOSE i \in hits : \A j \in hits : i <= j) - 1

\* String.prototype.lastIndexOf(pat): 0-based index of the last occurrence, -1 if none.
LastIndexOf(s, pat) ==
    LET hits == { i \in 1..(Len(s) - Len(pat) + 1) : SubSeq(s, i, i + Len(pat) - 1) = pat }
    IN  IF hits = {} THEN -1
        ELSE (CHOOSE i \in hits : \A j \in hits : i >= j) - 1

\* String.prototype.substr(start, length) for 0 <= start.
Substr(s, start, length) == SubSeq(s, start + 1, start + length)

\* String.prototype.replace(pat, rep) with a string pattern: the first
\* occurrence only, wherever it is.
Replace(s, pat, rep) ==
    LET i == IndexOf(s, pat)
    IN  IF i = -1 THEN s
        ELSE SubSeq(s, 1, i) \o rep \o SubSeq(s, i + Len(pat) + 1, Len(s))

\* The segments of a path between its "/" separators (empty segments kept).
RECURSIVE Split(_)
Split(s) ==
    LET i == IndexOf(s, <<"/">>)
    IN  IF i = -1 THEN <<s>>
        ELSE <<SubSeq(s, 1, i)>> \o Split(SubSeq(s, i + 2, Len(s)))

\* posix normalizeString: drops "" and "." segments and resolves "..".
RECURSIVE NormalizeSegments(_, _, _)
NormalizeSegments(segs, acc, isAbsolute) ==
    IF segs = <<>> THEN acc
    ELSE LET seg == Head(segs)
             rest == Tail(segs)
         IN  IF seg = <<>> \/ seg = <<".">>
                 THEN NormalizeSegments(rest, acc, isAbsolute)
             ELSE IF seg = <<".", ".">>
                 THEN IF acc # <<>> /\ Last(acc) # <<".", ".">>
                          THEN NormalizeSegments(rest, Front(acc), isAbsolute)
                      ELSE IF isAbsolute
                          THEN NormalizeSegments(rest, acc, isAbsolute)
                      ELSE NormalizeSegments(rest, Append(acc, seg), isAbsolute)
             ELSE NormalizeSegments(rest, Append(acc, seg), isAbsolute)

RECURSIVE JoinSegments(_)
JoinSegments(segs) ==
    IF segs = <<>> THEN <<>>
    ELSE IF Len(segs) = 1 THEN Head(segs)
    ELSE Head(segs) \o <<"/">> \o JoinSegments(Tail(segs))

\* path.normalize (posix).
Normalize(p) ==
    IF p = <<>> THEN <<".">>
    ELSE LET isAbsolute == Head(p) = "/"
             trailing   == Last(p) = "/"
             body       == JoinSegments(NormalizeSegments(Split(p), <<>>, isAbsolute))
             body1      == IF body = <<>> /\ ~isAbsolute THEN <<".">> ELSE body
             body2      == IF body1 # <<>> /\ trailing THEN body1 \o <<"/">> ELSE body1
         IN  IF isAbsolute THEN <<"/">> \o body2 ELSE body2

\* path.join (posix): the non-empty arguments joined by "/", then normalized.
RECURSIVE JoinArgs(_)
JoinArgs(args) ==
    IF args = <<>> THEN <<>>
    ELSE LET rest == JoinArgs(Tail(args))
         IN  IF Head(args) = <<>> THEN rest
             ELSE IF rest = <<>> THEN Head(args)
             ELSE Head(args) \o <<"/">> \o rest

Join(args) ==
    LET joined == JoinArgs(args)
    IN  IF joined = <<>> THEN <<".">> ELSE Normalize(joined)

-----------------------------------------------------------------------------
(* AssetsBrowserVideoMoveHandler (files/move/video.ts).                    *)

\* The characters paths and texture names are made of.
Chars == {"/", "v"}

MaxNameLen == 2

NumTextures == 2

\* Relative paths of files: normalized, no leading or trailing separator.
RelativeFilePaths ==
    { n \in SeqsOf(Chars, 1, MaxNameLen) :
          Normalize(n) = n /\ Head(n) # "/" /\ Last(n) # "/" }

\* The names a texture of the scene may carry: the relative path of its file,
\* as the editor writes it or with a separator in front (path.join gives both
\* the same recorded path).
TextureNames ==
    RelativeFilePaths \cup
        { <<"/">> \o r : r \in { q \in RelativeFilePaths : Len(q) < MaxNameLen } }

\* The assets directory of the project: an absolute, normalized directory.
AssetsDirectories == { <<"/", "v">> }

\* The absolute paths of the files of the assets directory `dir`: what the
\* assets browser hands to a move handler.
AssetFiles(dir) == { dir \o <<"/">> \o r : r \in RelativeFilePaths }

Texture == [isVideo : BOOLEAN, name : TextureNames]

NoPath == <<>>

\* `t instanceof VideoTexture`
IsVideoTexture(t) == t.isVideo

\* video.ts:34: path.replace(join(assetsDirectory, "/"), "")
RelativeToAssets(path) ==
    Replace(path, Join(<<assetsDirectory, <<"/">>>>), <<>>)

isFileUsedNoKindCheck(path) ==
    \E i \in DOMAIN textures : textures[i].name = RelativeToAssets(path)

\* video.ts:33-36: the value isFileUsed(path) resolves to.
isFileUsedResult(path) ==
    \E i \in DOMAIN textures :
        IsVideoTexture(textures[i]) /\ textures[i].name = RelativeToAssets(path)

isFileUsed(path) ==
    /\ videoCall' = [op |-> "isFileUsed", from |-> NoPath, to |-> NoPath, path |-> path,
                     ret |-> isFileUsedResult(path), before |-> textures]
    /\ UNCHANGED <<assetsDirectory, textures>>

moveFileTextureNoKindCheck(tex, from, to) ==
    IF Join(<<assetsDirectory, tex.name>>) = from
        THEN [tex EXCEPT !.name = RelativeToAssets(to)]
        ELSE tex

\* video.ts:44-51: what moveFile(from, to) makes of one texture of the scene.
moveFileTexture(tex, from, to) ==
    IF IsVideoTexture(tex) /\ Join(<<assetsDirectory, tex.name>>) = from
        THEN [tex EXCEPT !.name = RelativeToAssets(to)]
        ELSE tex

moveFile(from, to) ==
    /\ textures' = [i \in DOMAIN textures |-> moveFileTexture(textures[i], from, to)]
    /\ videoCall' = [op |-> "moveFile", from |-> from, to |-> to, path |-> NoPath,
                     ret |-> FALSE, before |-> textures]
    /\ UNCHANGED assetsDirectory

VideoInit ==
    /\ assetsDirectory \in AssetsDirectories
    /\ textures \in [1..NumTextures -> Texture]
    /\ videoCall = [op |-> "none", from |-> NoPath, to |-> NoPath, path |-> NoPath,
                    ret |-> FALSE, before |-> <<>>]

-----------------------------------------------------------------------------
(* DefaultScene.CreateLabel (editor/tools/default-scene.ts).               *)

\* The most calls of CreateLabel in one behaviour.
MaxLabels == 2

LabelStrings == {"PBR", "Standard"}

Meshes == {"sphere", "cube"}

Sizes == {"200px", "60px"}

NoMesh == "(no mesh)"

NoControl == 0

\* new Rectangle(str) with the properties of default-scene.ts:29-40.
NewRectangle(str, width, height) ==
    [type |-> "Rectangle", name |-> str, text |-> "", children |-> <<>>,
     linkedMesh |-> NoMesh, connectedControl |-> NoControl, zIndex |-> 5,
     style |-> [background |-> "black", height |-> height, alpha |-> "0.5", width |-> width,
                cornerRadius |-> "20", thickness |-> "1", linkOffsetY |-> "30", top |-> "0%",
                verticalAlignment |-> "VERTICAL_ALIGNMENT_TOP",
                horizontalAlignment |-> "HORIZONTAL_ALIGNMENT_RIGHT",
                color |-> "", lineWidth |-> "", dash |-> ""]]

\* new TextBlock() with the properties of default-scene.ts:43-45.
NewTextBlock(str) ==
    [type |-> "TextBlock", name |-> "", text |-> str, children |-> <<>>,
     linkedMesh |-> NoMesh, connectedControl |-> NoControl, zIndex |-> 0,
     style |-> [background |-> "", height |-> "", alpha |-> "", width |-> "",
                cornerRadius |-> "", thickness |-> "", linkOffsetY |-> "", top |-> "",
                verticalAlignment |-> "", horizontalAlignment |-> "",
                color |-> "white", lineWidth |-> "", dash |-> ""]]

\* new Line() with the properties of default-scene.ts:53-56.
NewLine ==
    [type |-> "Line", name |-> "", text |-> "", children |-> <<>>,
     linkedMesh |-> NoMesh, connectedControl |-> NoControl, zIndex |-> 0,
     style |-> [background |-> "", height |-> "", alpha |-> "0.5", width |-> "",
                cornerRadius |-> "", thickness |-> "", linkOffsetY |-> "", top |-> "",
                verticalAlignment |-> "", horizontalAlignment |-> "",
                color |-> "", lineWidth |-> "5", dash |-> "5,10"]]

\* Container.addControl: the child goes before the first child of a higher
\* zIndex, at the end when there is none.
AddControl(children, c, heap) ==
    LET higher == { i \in 1..Len(children) : heap[children[i]].zIndex > heap[c].zIndex }
    IN  IF higher = {} THEN Append(children, c)
        ELSE LET at == CHOOSE i \in higher : \A j \in higher : i <= j
             IN  SubSeq(children, 1, at - 1) \o <<c>> \o SubSeq(children, at, Len(children))

LabelCallRecord(str, lines, mesh, ret) ==
    [op |-> "CreateLabel", str |-> str, lines |-> lines, mesh |-> mesh, ret |-> ret,
     guiBefore |-> guiChildren, controlsBefore |-> Len(controls)]

\* CreateLabel that links the label itself with the mesh whatever `lines` is.
CreateLabelAlwaysLinksLabel(mesh, str, lines, width, height) ==
    LET label == Len(controls) + 1
        text  == Len(controls) + 2
        line  == Len(controls) + 3
        h1    == controls \o <<NewRectangle(str, width, height), NewTextBlock(str)>>
        h2    == [h1 EXCEPT ![label].children = Append(@, text), ![label].linkedMesh = mesh]
        g1    == AddControl(guiChildren, label, h1)
    IN  IF ~lines
            THEN /\ controls' = h2
                 /\ guiChildren' = g1
                 /\ labelCall' = LabelCallRecord(str, lines, mesh, label)
            ELSE LET h3 == h2 \o <<NewLine>>
                     h4 == [h3 EXCEPT ![line].connectedControl = label]
                 IN  /\ controls' = h4
                     /\ guiChildren' = AddControl(g1, line, h3)
                     /\ labelCall' = LabelCallRecord(str, lines, mesh, label)

\* default-scene.ts:27-62.
CreateLabel(mesh, str, lines, width, height) ==
    LET label == Len(controls) + 1
        text  == Len(controls) + 2
        line  == Len(controls) + 3
        \* l.29-41: the label, added to the gui
        h1    == Append(controls, NewRectangle(str, width, height))
        g1    == AddControl(guiChildren, label, h1)
        \* l.43-46: the text, added to the label
        h2    == [Append(h1, NewTextBlock(str)) EXCEPT ![label].children = Append(@, text)]
    IN  IF ~lines
            THEN \* l.48-51
                 /\ controls' = [h2 EXCEPT ![label].linkedMesh = mesh]
                 /\ guiChildren' = g1
                 /\ labelCall' = LabelCallRecord(str, lines, mesh, label)
            ELSE \* l.53-61
                 LET h3 == Append(h2, NewLine)
                     g2 == AddControl(g1, line, h3)
                     h4 == [h3 EXCEPT ![line].linkedMesh = mesh,
                                      ![line].connectedControl = label]
                 IN  /\ controls' = h4
                     /\ guiChildren' = g2
                     /\ labelCall' = LabelCallRecord(str, lines, mesh, label)

\* The labels created so far.
LabelCount == Cardinality({ c \in DOMAIN controls : controls[c].type = "Rectangle" })

LabelInit ==
    /\ controls = <<>>
    /\ guiChildren = <<>>
    /\ labelCall = [op |-> "none", str |-> "", lines |-> FALSE, mesh |-> NoMesh,
                    ret |-> NoControl, guiBefore |-> <<>>, controlsBefore |-> 0]

NextLabel ==
    \E mesh \in Meshes, str \in LabelStrings, lines \in BOOLEAN,
       width \in Sizes, height \in Sizes :
        /\ LabelCount < MaxLabels
        /\ CreateLabel(mesh, str, lines, width, height)

-----------------------------------------------------------------------------
(* RenderingInspector (inspectors/rendering-inspector.tsx), the default    *)
(* pipeline part.                                                          *)

\* The flags of the default pipeline the inspector mirrors.
PipelineFlags ==
    {"imageProcessingEnabled", "bloomEnabled", "sharpenEnabled",
     "depthOfFieldEnabled", "chromaticAberrationEnabled"}

Pipelines == [PipelineFlags -> BOOLEAN]

\* Nullable<DefaultRenderingPipeline>.
NullablePipelines == {<<>>} \cup { <<p>> : p \in Pipelines }

\* SceneSettings.DefaultPipeline?.[flag] ?? false
FlagOrFalse(pipeline, flag) ==
    IF pipeline = <<>> THEN FALSE ELSE pipeline[1][flag]

getDefaultStateSharpenFromBloom ==
    [enabled                    |-> pipelineEnabled,
     imageProcessingEnabled     |-> FlagOrFalse(DefaultPipeline, "imageProcessingEnabled"),
     bloomEnabled               |-> FlagOrFalse(DefaultPipeline, "bloomEnabled"),
     sharpenEnabled             |-> FlagOrFalse(DefaultPipeline, "bloomEnabled"),
     depthOfFieldEnabled        |-> FlagOrFalse(DefaultPipeline, "depthOfFieldEnabled"),
     chromaticAberrationEnabled |-> FlagOrFalse(DefaultPipeline, "chromaticAberrationEnabled")]

\* rendering-inspector.tsx:301-310, read from the engine's current state.
getDefaultState ==
    [enabled                    |-> pipelineEnabled,
     imageProcessingEnabled     |-> FlagOrFalse(DefaultPipeline, "imageProcessingEnabled"),
     bloomEnabled               |-> FlagOrFalse(DefaultPipeline, "bloomEnabled"),
     sharpenEnabled             |-> FlagOrFalse(DefaultPipeline, "sharpenEnabled"),
     depthOfFieldEnabled        |-> FlagOrFalse(DefaultPipeline, "depthOfFieldEnabled"),
     chromaticAberrationEnabled |-> FlagOrFalse(DefaultPipeline, "chromaticAberrationEnabled")]

\* { ...a, ...b }: the keys of b win.
Spread(a, b) ==
    [k \in DOMAIN a \cup DOMAIN b |-> IF k \in DOMAIN b THEN b[k] ELSE a[k]]

\* rendering-inspector.tsx:315-322 on this.state.default = `current`, with
\* the engine in the state the handler left it in; the component renders
\* again with the new state.
updateDefaultState(current) ==
    /\ stateDefault' = Spread(current, getDefaultState')
    /\ renderedPipeline' = (DefaultPipeline' # <<>>)

\* rendering-inspector.tsx:187-190: the "Enabled" toggle of the default
\* pipeline. The toggle writes state.default.enabled, then the handler calls
\* SceneSettings.SetDefaultPipelineEnabled, which is left free to put the
\* engine in any state.
OnChangeDefaultEnabled(v) ==
    /\ pipelineEnabled' \in BOOLEAN
    /\ DefaultPipeline' \in NullablePipelines
    /\ updateDefaultState([stateDefault EXCEPT !.enabled = v])
    /\ renderingCall' = [op |-> "onChange", property |-> "enabled", value |-> v]

\* rendering-inspector.tsx:200, 215, 230, 243, 265: the "Enabled" toggle of
\* one effect, shown when the last render had state.default.enabled and a
\* pipeline (l.192). The toggle writes the flag on the pipeline it was
\* rendered with, which is the engine's current one or one since replaced.
OnChangePipelineFlag(flag, v) ==
    /\ stateDefault.enabled
    /\ renderedPipeline
    /\ \/ /\ DefaultPipeline # <<>>
          /\ DefaultPipeline' = <<[DefaultPipeline[1] EXCEPT ![flag] = v]>>
       \/ DefaultPipeline' = DefaultPipeline
    /\ pipelineEnabled' = pipelineEnabled
    /\ updateDefaultState(stateDefault)
    /\ renderingCall' = [op |-> "onChange", property |-> flag, value |-> v]

\* The engine's pipeline changed by something else than this inspector.
EngineChange ==
    /\ pipelineEnabled' \in BOOLEAN
    /\ DefaultPipeline' \in NullablePipelines
    /\ <<pipelineEnabled', DefaultPipeline'>> # <<pipelineEnabled, DefaultPipeline>>
    /\ renderingCall' = [op |-> "engine", property |-> "", value |-> FALSE]
    /\ UNCHANGED <<stateDefault, renderedPipeline>>

\* rendering-inspector.tsx:66-75: the constructor, with the engine in any state.
RenderingInit ==
    /\ pipelineEnabled \in BOOLEAN
    /\ DefaultPipeline \in NullablePipelines
    /\ stateDefault = getDefaultState
    /\ renderedPipeline = (DefaultPipeline # <<>>)
    /\ renderingCall = [op |-> "constructor", property |-> "", value |-> FALSE]

-----------------------------------------------------------------------------
(* ScriptInspector._getInspectorValues (inspectors/script-inspector.tsx).  *)

\* JavaScript values: a tag, and for an object its keys and their values.
\* Scalars and the values of keys are written as strings ("0", "true", ...).
Undefined == [tag |-> "undefined", keys |-> <<>>, vals |-> <<>>]

Num(n) == [tag |-> "number", keys |-> <<>>, vals |-> <<n>>]

Str(t) == [tag |-> "string", keys |-> <<>>, vals |-> <<t>>]

Bool(b) == [tag |-> "boolean", keys |-> <<>>, vals |-> <<b>>]

Obj(keys, vals) == [tag |-> "object", keys |-> keys, vals |-> vals]

\* o.key: "undefined" when the object has no such key.
Get(o, key) ==
    IF \E i \in DOMAIN o.keys : o.keys[i] = key
        THEN o.vals[CHOOSE i \in DOMAIN o.keys : o.keys[i] = key]
        ELSE "undefined"

\* a ?? b
Coalesce(a, b) == IF a = Undefined THEN b ELSE a

\* if (v): the truthiness of a value.
Truthy(v) ==
    CASE v.tag = "undefined" -> FALSE
      [] v.tag = "number"    -> v.vals[1] # "0"
      [] v.tag = "string"    -> v.vals[1] # ""
      [] v.tag = "boolean"   -> v.vals[1] = "true"
      [] OTHER               -> TRUE

None == <<"N", "o", "n", "e">>

\* The paths of the scripts of the workspace.
ScriptPaths == { <<"a", ".", "t", "s">>, <<"b", ".", "t", "s">> }

\* The most exported values of one script.
MaxExports == 2

PropertyKeys == {"speed", "target", "tint"}

\* The types the inspector has a widget for (script-inspector.tsx:191-247).
WidgetTypes == {"number", "string", "boolean", "Vector2", "Vector3", "Color3", "Color4"}

\* The types a script may export: those and one the inspector has no widget for.
ExportTypes == WidgetTypes \cup {"KeyMap"}

\* A default value as the sandbox hands it over for an export of type `type`.
SomeDefault(type) ==
    CASE type = "number"  -> Num("3")
      [] type = "string"  -> Str("text")
      [] type = "boolean" -> Bool("true")
      [] type = "Vector2" -> Obj(<<"x", "y">>, <<"1", "2">>)
      [] type = "Vector3" -> Obj(<<"_x", "_y", "_z">>, <<"1", "2", "3">>)
      [] type = "Color3"  -> Obj(<<"r", "g", "b">>, <<"0.1", "0.2", "0.3">>)
      [] type = "Color4"  -> Obj(<<"r", "g", "b", "a">>, <<"0.1", "0.2", "0.3", "0.4">>)
      [] OTHER            -> Obj(<<>>, <<>>)

\* IExportedInspectorValue. `name` is undefined ("") for every key but "tint".
ExportedValues ==
    { [propertyKey |-> k, name |-> IF k = "tint" THEN "Tint" ELSE "", type |-> t,
       defaultValue |-> d] :
          k \in PropertyKeys, t \in ExportTypes, d \in {Undefined} }
    \cup
    { [propertyKey |-> k, name |-> IF k = "tint" THEN "Tint" ELSE "", type |-> t,
       defaultValue |-> SomeDefault(t)] :
          k \in PropertyKeys, t \in ExportTypes }

\* The lists SandboxMain.GetInspectorValues may return: one entry per
\* decorated property of the script's class.
ExportLists ==
    { l \in SeqsOf(ExportedValues, 0, MaxExports) :
          \A i, j \in DOMAIN l : i # j => l[i].propertyKey # l[j].propertyKey }

\* A value saved in the project for a property.
SavedValue == Str("saved")

\* metadata.script.properties as saved: per key nothing, or a value.
SavedProperties ==
    {<<>>} \cup
    { << [k \in keys |-> [type |-> "string", value |-> SavedValue]] >> :
          keys \in SUBSET PropertyKeys }

\* script-inspector.tsx:191-247: the widget of an exported type, "" for none.
WidgetOf(type) ==
    CASE type = "number"  -> "InspectorNumber"
      [] type = "string"  -> "InspectorString"
      [] type = "boolean" -> "InspectorBoolean"
      [] type = "Vector2" -> "InspectorVector2"
      [] type = "Vector3" -> "InspectorVector3"
      [] type = "Color3"  -> "InspectorColor"
      [] type = "Color4"  -> "InspectorColor"
      [] OTHER            -> ""

InitialValueVector3FromXYZ(iv) ==
    LET d == iv.defaultValue
    IN  CASE iv.type = "number"  -> Coalesce(d, Num("0"))
          [] iv.type = "string"  -> Coalesce(d, Str(""))
          [] iv.type = "boolean" -> Coalesce(d, Bool("false"))
          [] iv.type = "Vector2" ->
                 IF Truthy(d) THEN Obj(<<"x", "y">>, <<Get(d, "x"), Get(d, "y")>>)
                 ELSE Obj(<<"x", "y">>, <<"0", "0">>)
          [] iv.type = "Vector3" ->
                 IF Truthy(d)
                     THEN Obj(<<"x", "y", "z">>, <<Get(d, "x"), Get(d, "y"), Get(d, "z")>>)
                 ELSE Obj(<<"x", "y", "z">>, <<"0", "0", "0">>)
          [] iv.type \in {"Color3", "Color4"} ->
                 IF Truthy(d)
                     THEN Obj(<<"r", "g", "b", "a">>,
                              <<Get(d, "r"), Get(d, "g"), Get(d, "b"), Get(d, "a")>>)
                 ELSE Obj(<<"r", "g", "b", "a">>,
                          <<"0", "0", "0", IF iv.type = "Color4" THEN "1" ELSE "undefined">>)
          [] OTHER -> Undefined

\* script-inspector.tsx:193, 200, 207, 214-219, 225-230, 238-243: the value a
\* property without one is given.
InitialValue(iv) ==
    LET d == iv.defaultValue
    IN  CASE iv.type = "number"  -> Coalesce(d, Num("0"))
          [] iv.type = "string"  -> Coalesce(d, Str(""))
          [] iv.type = "boolean" -> Coalesce(d, Bool("false"))
          [] iv.type = "Vector2" ->
                 IF Truthy(d) THEN Obj(<<"x", "y">>, <<Get(d, "x"), Get(d, "y")>>)
                 ELSE Obj(<<"x", "y">>, <<"0", "0">>)
          [] iv.type = "Vector3" ->
                 IF Truthy(d)
                     THEN Obj(<<"x", "y", "z">>, <<Get(d, "_x"), Get(d, "_y"), Get(d, "_z")>>)
                 ELSE Obj(<<"x", "y", "z">>, <<"0", "0", "0">>)
          [] iv.type \in {"Color3", "Color4"} ->
                 IF Truthy(d)
                     THEN Obj(<<"r", "g", "b", "a">>,
                              <<Get(d, "r"), Get(d, "g"), Get(d, "b"), Get(d, "a")>>)
                 ELSE Obj(<<"r", "g", "b", "a">>,
                          <<"0", "0", "0", IF iv.type = "Color4" THEN "1" ELSE "undefined">>)
          [] OTHER -> Undefined

\* script-inspector.tsx:186-248: one turn of the forEach, on the pair of the
\* properties and the children so far.
ExportStep(acc, iv) ==
    LET \* l.186: properties[iv.propertyKey] ??= { type: iv.type }
        props1 == IF iv.propertyKey \in DOMAIN acc.properties
                      THEN acc.properties
                      ELSE [k \in DOMAIN acc.properties \cup {iv.propertyKey} |->
                               IF k = iv.propertyKey
                                   THEN [type |-> iv.type, value |-> Undefined]
                                   ELSE acc.properties[k]]
        \* l.188
        label  == IF iv.name = "" THEN iv.propertyKey ELSE iv.name
        property == props1[iv.propertyKey]
    IN  IF WidgetOf(iv.type) = ""
            THEN [properties |-> props1, children |-> acc.children]
            ELSE [properties |->
                      [props1 EXCEPT ![iv.propertyKey].value =
                           \* property.value ??= property.value ?? <initial value>
                           Coalesce(property.value, Coalesce(property.value, InitialValue(iv)))],
                  children |->
                      Append(acc.children,
                             [widget |-> WidgetOf(iv.type), object |-> iv.propertyKey,
                              property |-> "value", label |-> label])]

RECURSIVE ForEachExport(_, _)
ForEachExport(acc, ivs) ==
    IF ivs = <<>> THEN acc
    ELSE ForEachExport(ExportStep(acc, Head(ivs)), Tail(ivs))

\* script-inspector.tsx:175-254.
getInspectorValues ==
    IF scriptName = None \/ Len(inspectorValues) = 0
        THEN \* l.176-178
             /\ exportedSection' = [rendered |-> TRUE, defined |-> FALSE, children |-> <<>>,
                                    before |-> scriptProperties]
             /\ UNCHANGED scriptProperties
        ELSE LET \* l.180: properties ??= { }
                 properties == IF scriptProperties = <<>> THEN <<>> ELSE scriptProperties[1]
                 result == ForEachExport([properties |-> properties, children |-> <<>>],
                                         inspectorValues)
             IN  /\ scriptProperties' = <<result.properties>>
                 /\ exportedSection' = [rendered |-> TRUE, defined |-> TRUE,
                                        children |-> result.children,
                                        before |-> scriptProperties]

ExportInit ==
    /\ scriptName \in {None} \cup ScriptPaths
    /\ inspectorValues \in ExportLists
    /\ scriptProperties \in SavedProperties
    /\ exportedSection = [rendered |-> FALSE, defined |-> FALSE, children |-> <<>>,
                          before |-> <<>>]

NextExport ==
    /\ getInspectorValues
    /\ UNCHANGED scriptVars

-----------------------------------------------------------------------------
(* ScriptInspector: refreshing the script (inspectors/script-inspector.tsx *)
(* l.93-129, 259-308). A call of _updateScriptVisibleProperties is a run;  *)
(* a run gives way at each await, and the steps below are the stretches of *)
(* code between two awaits.                                                *)

\* The most runs in flight at a time.
MaxRuns == 2

\* The most calls of refreshAvailableScripts awaiting GetAllScripts at a time.
MaxPendingRefreshes == 1

RunIds == 1..MaxRuns

\* WorkSpace.DirPath
WorkSpaceDirPath == <<"/", "w">>

Build == <<"b", "u", "i", "l", "d">>

DotJs == <<".", "j", "s">>

\* path.extname (posix): from the last "." of the last segment, "" when there
\* is none or when the segment starts with its only ".".
ExtName(path) ==
    LET base == Last(Split(path))
        dot  == LastIndexOf(base, <<".">>)
    IN  IF dot <= 0 \/ base = <<".", ".">> THEN <<>>
        ELSE SubSeq(base, dot + 1, Len(base))

\* script-inspector.tsx:273-274
ExtensionIndex(name) == LastIndexOf(name, ExtName(name))

\* script-inspector.tsx:278-279
JsPath(name) ==
    LET jsName == Normalize(Substr(name, 0, ExtensionIndex(name)) \o DotJs)
    IN  Join(<<WorkSpaceDirPath, Build, jsName>>)

\* script-inspector.tsx:272-279 for each name metadata.script.name can hold:
\* the index of its extension and its compiled path.
SelectableNames == {None} \cup ScriptPaths

ExtensionIndexOf == [name \in SelectableNames |-> ExtensionIndex(name)]

JsPathOf == [name \in SelectableNames |-> JsPath(name)]

\* The compiled files of the scripts of the workspace.
CompiledFiles == { JsPathOf[n] : n \in ScriptPaths }

\* The values each compiled file exports.
ExportsOf(path) ==
    IF path = JsPathOf[<<"a", ".", "t", "s">>]
        THEN << [propertyKey |-> "speed", name |-> "", type |-> "number",
                 defaultValue |-> SomeDefault("number")] >>
        ELSE << [propertyKey |-> "tint", name |-> "Tint", type |-> "Color3",
                 defaultValue |-> Undefined] >>

\* script-inspector.tsx:295: `?? []`, the list or the empty list for null.
OrEmpty(result) == IF result = <<>> THEN <<>> ELSE result[1]

\* What SandboxMain.GetInspectorValues(path) resolves to: <<the list>>, or
\* <<>> (null) when there is no such file to extract from.
GetInspectorValues(path) ==
    IF path \in files THEN <<ExportsOf(path)>> ELSE <<>>

\* The lists of scripts ScriptAssets.GetAllScripts may find.
ScriptLists ==
    { << <<"a", ".", "t", "s">> >>,
      << <<"a", ".", "t", "s">>, <<"b", ".", "t", "s">> >> }

Range(f) == { f[i] : i \in DOMAIN f }

isMounted == lifecycle = "mounted"

getScriptsListItemsWithoutNone ==
    [i \in DOMAIN scripts |-> [label |-> scripts[i], data |-> scripts[i], icon |-> "ts.png"]]

\* script-inspector.tsx:113-119
getScriptsListItems ==
    <<[label |-> None, data |-> None]>> \o
        [i \in DOMAIN scripts |-> [label |-> scripts[i], data |-> scripts[i], icon |-> "ts.png"]]

\* React's setState: the state of a component that is not mounted stays as it is.
SetState(old, new) == IF isMounted THEN new ELSE old

IdleRun == [pc |-> "idle", cause |-> "", jsPath |-> NoPath, decorated |-> FALSE]

InFlight(r) == runs[r].pc \in {"readFile", "executeCode", "pathExists", "wait", "getValues"}

FreeRuns == { r \in RunIds : ~InFlight(r) }

\* Room for one more call that may start a run.
CanStart == Cardinality(FreeRuns) > pendingRefreshes

\* FSWatcher.close()
Closed(watcher) == IF watcher = <<>> THEN <<>> ELSE <<[watcher[1] EXCEPT !.open = FALSE]>>

\* _updateScriptVisibleProperties without the test for "None" of l.265.
StartRunWithoutNoneCheck(cause) ==
    /\ scriptWatcher' = <<>>
    /\ LET r == CHOOSE x \in FreeRuns : \A y \in FreeRuns : x <= y
       IN  /\ refresing' = SetState(refresing, TRUE)
           /\ runs' = [runs EXCEPT ![r] =
                           [pc |-> "readFile", cause |-> cause, jsPath |-> NoPath,
                            decorated |-> FALSE]]

\* script-inspector.tsx:260-270 and 304: _updateScriptVisibleProperties up to
\* its first await (readFile in _refreshDecorators).
StartRun(cause) ==
    /\ scriptWatcher' = <<>>
    /\ IF scriptName' = None
           THEN UNCHANGED <<refresing, runs>>
           ELSE LET r == CHOOSE x \in FreeRuns : \A y \in FreeRuns : x <= y
                IN  /\ refresing' = SetState(refresing, TRUE)
                    /\ runs' = [runs EXCEPT ![r] =
                                    [pc |-> "readFile", cause |-> cause, jsPath |-> NoPath,
                                     decorated |-> FALSE]]

\* script-inspector.tsx:304-307: readFile resolved; the decorators are
\* transpiled and handed to SandboxMain.ExecuteCode.
ReadFileDone(r) ==
    /\ runs[r].pc = "readFile"
    /\ runs' = [runs EXCEPT ![r].pc = "executeCode"]
    /\ UNCHANGED <<scriptName, inspectorValues, lifecycle, refresing, scripts, scriptWatcher,
                   leakedWatchers, pendingRefreshes, workspaceScripts, files, observed>>

\* script-inspector.tsx:282: the condition of the polling loop, and l.286
\* when the loop ends at once.
PollOrReturn(r, jsPath, decorated) ==
    IF isMounted
        THEN runs' = [runs EXCEPT ![r] = [@ EXCEPT !.pc = "pathExists", !.jsPath = jsPath,
                                                   !.decorated = decorated]]
        ELSE runs' = [runs EXCEPT ![r] = [pc |-> "returned", cause |-> "", jsPath |-> jsPath,
                                          decorated |-> decorated]]

\* script-inspector.tsx:270-282 and 295: ExecuteCode resolved, which completes
\* _refreshDecorators; the run reads the selected script, and waits for the
\* compiled file when no watcher is set, asks for the exported values when
\* one is.
DecoratorsDone(r) ==
    /\ runs[r].pc = "executeCode"
    /\ IF ExtensionIndexOf[scriptName] = -1
           THEN runs' = [runs EXCEPT ![r] = [pc |-> "returned", cause |-> "",
                                             jsPath |-> NoPath, decorated |-> TRUE]]
       ELSE IF scriptWatcher = <<>>
           THEN PollOrReturn(r, JsPathOf[scriptName], TRUE)
       ELSE runs' = [runs EXCEPT ![r] = [@ EXCEPT !.pc = "getValues",
                                                  !.jsPath = JsPathOf[scriptName],
                                                  !.decorated = TRUE]]
    /\ UNCHANGED <<scriptName, inspectorValues, lifecycle, refresing, scripts, scriptWatcher,
                   leakedWatchers, pendingRefreshes, workspaceScripts, files, observed>>

\* script-inspector.tsx:282-295: pathExists resolved. On false the run waits
\* 500 ms; on true it leaves the loop, returns when unmounted, and otherwise
\* sets a new watcher (the one set before, if any, stays open with nothing
\* referring to it) and asks for the exported values.
PathExistsDone(r) ==
    /\ runs[r].pc = "pathExists"
    /\ LET jsPath == runs[r].jsPath
       IN  IF jsPath \notin files
               THEN /\ runs' = [runs EXCEPT ![r].pc = "wait"]
                    /\ UNCHANGED <<scriptWatcher, leakedWatchers, observed>>
           ELSE IF ~isMounted
               THEN /\ runs' = [runs EXCEPT ![r] = [pc |-> "returned", cause |-> "",
                                                    jsPath |-> jsPath,
                                                    decorated |-> runs[r].decorated]]
                    /\ observed' = observed \cup {jsPath}
                    /\ UNCHANGED <<scriptWatcher, leakedWatchers>>
           ELSE /\ scriptWatcher' = <<[path |-> jsPath, open |-> TRUE]>>
                /\ leakedWatchers' =
                       IF scriptWatcher # <<>> /\ scriptWatcher[1].open
                           THEN leakedWatchers \cup {scriptWatcher[1].path}
                           ELSE leakedWatchers
                /\ observed' = observed \cup {jsPath}
                /\ runs' = [runs EXCEPT ![r].pc = "getValues"]
    /\ UNCHANGED <<scriptName, inspectorValues, lifecycle, refresing, scripts,
                   pendingRefreshes, workspaceScripts, files>>

\* script-inspector.tsx:282-286: Tools.Wait(500) resolved; the loop tests
\* its condition again.
WaitDone(r) ==
    /\ runs[r].pc = "wait"
    /\ PollOrReturn(r, runs[r].jsPath, runs[r].decorated)
    /\ UNCHANGED <<scriptName, inspectorValues, lifecycle, refresing, scripts, scriptWatcher,
                   leakedWatchers, pendingRefreshes, workspaceScripts, files, observed>>

\* script-inspector.tsx:295-297: GetInspectorValues resolved.
GetValuesDone(r) ==
    /\ runs[r].pc = "getValues"
    /\ refresing' = SetState(refresing, FALSE)
    /\ inspectorValues' = SetState(inspectorValues, OrEmpty(GetInspectorValues(runs[r].jsPath)))
    /\ runs' = [runs EXCEPT ![r] = [pc |-> "done", cause |-> "", jsPath |-> @.jsPath,
                                    decorated |-> @.decorated]]
    /\ UNCHANGED <<scriptName, lifecycle, scripts, scriptWatcher, leakedWatchers,
                   pendingRefreshes, workspaceScripts, files, observed>>

\* The steps of run r.
RunStep(r) ==
    \/ ReadFileDone(r)
    \/ DecoratorsDone(r)
    \/ PathExistsDone(r)
    \/ WaitDone(r)
    \/ GetValuesDone(r)

\* script-inspector.tsx:93-97: componentDidMount.
Mount ==
    /\ lifecycle = "constructed"
    /\ lifecycle' = "mounted"
    /\ pendingRefreshes' = pendingRefreshes + 1
    /\ UNCHANGED <<scriptName, inspectorValues, refresing, scripts, scriptWatcher,
                   leakedWatchers, runs, workspaceScripts, files, observed>>

\* script-inspector.tsx:140-143: the list asks for its items.
ListItems ==
    /\ isMounted
    /\ pendingRefreshes < MaxPendingRefreshes
    /\ CanStart
    /\ pendingRefreshes' = pendingRefreshes + 1
    /\ UNCHANGED <<scriptName, inspectorValues, lifecycle, refresing, scripts, scriptWatcher,
                   leakedWatchers, runs, workspaceScripts, files, observed>>

\* script-inspector.tsx:125-129: GetAllScripts resolved.
RefreshDone ==
    /\ pendingRefreshes > 0
    /\ pendingRefreshes' = pendingRefreshes - 1
    /\ scripts' = SetState(scripts, workspaceScripts)
    /\ scriptName' = scriptName
    /\ StartRun("refresh")
    /\ leakedWatchers' = leakedWatchers
    /\ UNCHANGED <<inspectorValues, lifecycle, workspaceScripts, files, observed>>

\* script-inspector.tsx:136-145: the user picks `name` in the list, which
\* writes metadata.script.name and calls onChange.
SelectScript(name) ==
    /\ isMounted
    /\ CanStart
    /\ name # scriptName
    /\ name \in {None} \cup Range(scripts)
    /\ scriptName' = name
    /\ StartRun("onChange")
    /\ UNCHANGED <<inspectorValues, lifecycle, scripts, leakedWatchers, pendingRefreshes,
                   workspaceScripts, files, observed>>

\* The open watchers: the one this._scriptWatcher refers to and the leaked ones.
OpenWatcherPaths ==
    leakedWatchers \cup
        (IF scriptWatcher # <<>> /\ scriptWatcher[1].open THEN {scriptWatcher[1].path} ELSE {})

\* script-inspector.tsx:288-292: an open watcher (of this._scriptWatcher or a
\* leaked one) reports "change".
WatcherChange(path) ==
    /\ path \in OpenWatcherPaths
    /\ CanStart
    /\ scriptName' = scriptName
    /\ StartRun(IF scriptWatcher # <<>> /\ scriptWatcher[1].open /\ scriptWatcher[1].path = path
                    THEN "change" ELSE "leaked")
    /\ UNCHANGED <<inspectorValues, lifecycle, scripts, leakedWatchers, pendingRefreshes,
                   workspaceScripts, files, observed>>

\* script-inspector.tsx:288-292: an open watcher reports "rename".
WatcherRename(path) ==
    /\ path \in OpenWatcherPaths
    /\ UNCHANGED scriptVars

\* script-inspector.tsx:102-108: componentWillUnmount.
Unmount ==
    /\ lifecycle = "mounted"
    /\ lifecycle' = "unmounted"
    /\ scriptWatcher' = Closed(scriptWatcher)
    /\ UNCHANGED <<scriptName, inspectorValues, refresing, scripts, leakedWatchers, runs,
                   pendingRefreshes, workspaceScripts, files, observed>>

\* The build writes the compiled file of a script.
FileCompiled(path) ==
    /\ path \notin files
    /\ files' = files \cup {path}
    /\ UNCHANGED <<scriptName, inspectorValues, lifecycle, refresing, scripts, scriptWatcher,
                   leakedWatchers, runs, pendingRefreshes, workspaceScripts, observed>>

\* script-inspector.tsx:57-66: the constructor; the object may carry a script.
ScriptInit ==
    /\ scriptName \in {None} \cup ScriptPaths
    /\ inspectorValues = <<>>
    /\ lifecycle = "constructed"
    /\ refresing = FALSE
    /\ scripts = <<>>
    /\ scriptWatcher = <<>>
    /\ leakedWatchers = {}
    /\ runs = [r \in RunIds |-> IdleRun]
    /\ pendingRefreshes = 0
    /\ workspaceScripts \in ScriptLists
    /\ files = {}
    /\ observed = {}

-----------------------------------------------------------------------------
(* Specifications.                                                         *)

VideoIdle ==
    /\ assetsDirectory = NoPath
    /\ textures = <<>>
    /\ videoCall = [op |-> "none"]

LabelIdle == LabelInit

RenderingIdle ==
    /\ pipelineEnabled = FALSE
    /\ DefaultPipeline = <<>>
    /\ stateDefault = getDefaultState
    /\ renderedPipeline = FALSE
    /\ renderingCall = [op |-> "none"]

ExportIdle ==
    /\ scriptProperties = <<>>
    /\ exportedSection = [rendered |-> FALSE]

ScriptIdle ==
    /\ lifecycle = "idle"
    /\ refresing = FALSE
    /\ scripts = <<>>
    /\ scriptWatcher = <<>>
    /\ leakedWatchers = {}
    /\ runs = <<>>
    /\ pendingRefreshes = 0
    /\ workspaceScripts = <<>>
    /\ files = {}
    /\ observed = {}

ScriptNameIdle ==
    /\ scriptName = None
    /\ inspectorValues = <<>>

InitVideo == VideoInit /\ LabelIdle /\ RenderingIdle /\ ExportIdle /\ ScriptNameIdle /\ ScriptIdle

FullNextVideo ==
    \/ \E from \in AssetFiles(assetsDirectory), to \in AssetFiles(assetsDirectory) :
           moveFile(from, to) /\ UNCHANGED <<labelVars, renderingVars, exportVars, scriptVars>>
    \/ \E path \in AssetFiles(assetsDirectory) :
           isFileUsed(path) /\ UNCHANGED <<labelVars, renderingVars, exportVars, scriptVars>>

SpecVideo == InitVideo /\ [][FullNextVideo]_vars

InitLabel == VideoIdle /\ LabelInit /\ RenderingIdle /\ ExportIdle /\ ScriptNameIdle /\ ScriptIdle

FullNextLabel ==
    NextLabel /\ UNCHANGED <<videoVars, renderingVars, exportVars, scriptVars>>

SpecLabel == InitLabel /\ [][FullNextLabel]_vars

InitRendering == VideoIdle /\ LabelIdle /\ RenderingInit /\ ExportIdle /\ ScriptNameIdle /\ ScriptIdle

FullNextRendering ==
    \/ \E v \in BOOLEAN :
           OnChangeDefaultEnabled(v) /\ UNCHANGED <<videoVars, labelVars, exportVars, scriptVars>>
    \/ \E flag \in PipelineFlags, v \in BOOLEAN :
           OnChangePipelineFlag(flag, v)
               /\ UNCHANGED <<videoVars, labelVars, exportVars, scriptVars>>
    \/ EngineChange /\ UNCHANGED <<videoVars, labelVars, exportVars, scriptVars>>

SpecRendering == InitRendering /\ [][FullNextRendering]_vars

InitExport == VideoIdle /\ LabelIdle /\ RenderingIdle /\ ExportInit /\ ScriptIdle

FullNextExport == NextExport /\ UNCHANGED <<videoVars, labelVars, renderingVars>>

SpecExport == InitExport /\ [][FullNextExport]_vars

InitScript == VideoIdle /\ LabelIdle /\ RenderingIdle /\ ExportIdle /\ ScriptInit

NotScript == <<videoVars, labelVars, renderingVars, exportVars>>

FullNextScript ==
    \/ Mount /\ UNCHANGED NotScript
    \/ ListItems /\ UNCHANGED NotScript
    \/ RefreshDone /\ UNCHANGED NotScript
    \/ \E name \in {None} \cup ScriptPaths : SelectScript(name) /\ UNCHANGED NotScript
    \/ \E path \in CompiledFiles : WatcherChange(path) /\ UNCHANGED NotScript
    \/ \E path \in CompiledFiles : WatcherRename(path) /\ UNCHANGED NotScript
    \/ Unmount /\ UNCHANGED NotScript
    \/ \E path \in CompiledFiles : FileCompiled(path) /\ UNCHANGED NotScript
    \/ \E r \in RunIds : ReadFileDone(r) /\ UNCHANGED NotScript
    \/ \E r \in RunIds : DecoratorsDone(r) /\ UNCHANGED NotScript
    \/ \E r \in RunIds : PathExistsDone(r) /\ UNCHANGED NotScript
    \/ \E r \in RunIds : WaitDone(r) /\ UNCHANGED NotScript
    \/ \E r \in RunIds : GetValuesDone(r) /\ UNCHANGED NotScript

SpecScript == InitScript /\ [][FullNextScript]_vars

\* Every await of a run resolves: promises settle and timers fire.
SpecScriptFair ==
    /\ SpecScript
    /\ \A r \in RunIds : WF_vars(RunStep(r) /\ UNCHANGED NotScript)

-----------------------------------------------------------------------------
(* Claims about AssetsBrowserVideoMoveHandler.                             *)

\* The path `p` without the assets directory and its separator in front,
\* `p` itself when it is not under the assets directory.
StripAssetsPrefix(p) ==
    LET prefix == assetsDirectory \o <<"/">>
    IN  IF Len(p) >= Len(prefix) /\ SubSeq(p, 1, Len(prefix)) = prefix
            THEN SubSeq(p, Len(prefix) + 1, Len(p))
            ELSE p

\* The path a texture records: the assets directory joined with its name.
RecordedPath(t) == Join(<<assetsDirectory, t.name>>)

\* C1: after moveFile(from, to) every VideoTexture whose recorded path was
\* `from` is named `to` without the assets-directory prefix, every other
\* texture keeps its name, and the scene holds the same textures as before.
C1_MoveFileRenamesExactlyMatching ==
    videoCall.op = "moveFile" =>
        /\ DOMAIN textures = DOMAIN videoCall.before
        /\ \A i \in DOMAIN textures :
               LET old == videoCall.before[i]
               IN  /\ textures[i].isVideo = old.isVideo
                   /\ textures[i].name =
                          IF old.isVideo /\ RecordedPath(old) = videoCall.from
                              THEN StripAssetsPrefix(videoCall.to)
                              ELSE old.name

\* A move that renamed a video texture and left alone a texture of another
\* kind recorded under the same path.
C1_Witness ==
    /\ videoCall.op = "moveFile"
    /\ \E i, j \in DOMAIN textures :
           /\ videoCall.before[i].isVideo
           /\ RecordedPath(videoCall.before[i]) = videoCall.from
           /\ textures[i].name # videoCall.before[i].name
           /\ ~videoCall.before[j].isVideo
           /\ RecordedPath(videoCall.before[j]) = videoCall.from
           /\ textures[j].name = videoCall.before[j].name

\* C2: isFileUsed(path) is true exactly when some VideoTexture is named
\* `path` relative to the assets directory, and it changes no texture.
C2_IsFileUsedIffVideoTexture ==
    videoCall.op = "isFileUsed" =>
        /\ videoCall.ret =
               (\E i \in DOMAIN textures :
                    textures[i].isVideo /\ textures[i].name = StripAssetsPrefix(videoCall.path))
        /\ textures = videoCall.before

\* A call answering false although a texture of another kind has the name.
C2_Witness ==
    /\ videoCall.op = "isFileUsed"
    /\ ~videoCall.ret
    /\ \E i \in DOMAIN textures :
           ~textures[i].isVideo /\ textures[i].name = StripAssetsPrefix(videoCall.path)

-----------------------------------------------------------------------------
(* Claims about DefaultScene.CreateLabel.                                  *)

\* The controls the last call created.
CreatedByCall == (labelCall.controlsBefore + 1)..Len(controls)

\* The controls the last call added to the gui.
AddedToGui ==
    { c \in CreatedByCall : \E i \in DOMAIN guiChildren : guiChildren[i] = c }

\* C9: CreateLabel adds to the gui, and returns, a Rectangle named `str` that
\* holds one TextBlock of text `str`. Without lines the label is linked with
\* the mesh, no Line is created and the gui gains one control; with lines the
\* gui gains the label and a Line, the Line is linked with the mesh and
\* connected to the label, and the label itself is not linked.
C9_CreateLabelAnchors ==
    labelCall.op = "CreateLabel" =>
        LET label == labelCall.ret
            lines == { c \in CreatedByCall : controls[c].type = "Line" }
        IN  /\ label \in AddedToGui
            /\ controls[label].type = "Rectangle"
            /\ controls[label].name = labelCall.str
            /\ Len(controls[label].children) = 1
            /\ controls[controls[label].children[1]].type = "TextBlock"
            /\ controls[controls[label].children[1]].text = labelCall.str
            /\ \A i \in DOMAIN labelCall.guiBefore :
                   \E j \in DOMAIN guiChildren : guiChildren[j] = labelCall.guiBefore[i]
            /\ IF ~labelCall.lines
                   THEN /\ controls[label].linkedMesh = labelCall.mesh
                        /\ lines = {}
                        /\ AddedToGui = {label}
                        /\ Len(guiChildren) = Len(labelCall.guiBefore) + 1
                   ELSE /\ Cardinality(lines) = 1
                        /\ \A l \in lines :
                               /\ controls[l].linkedMesh = labelCall.mesh
                               /\ controls[l].connectedControl = label
                               /\ AddedToGui = {label, l}
                        /\ controls[label].linkedMesh = NoMesh
                        /\ Len(guiChildren) = Len(labelCall.guiBefore) + 2

\* A call with lines made after a call without.
C9_Witness ==
    /\ labelCall.op = "CreateLabel"
    /\ labelCall.lines
    /\ \E c \in DOMAIN controls :
           /\ c \notin CreatedByCall
           /\ controls[c].type = "Rectangle"
           /\ controls[c].linkedMesh # NoMesh
    /\ \E l \in CreatedByCall :
           controls[l].type = "Line" /\ controls[l].connectedControl = labelCall.ret

-----------------------------------------------------------------------------
(* Claims about RenderingInspector.                                        *)

\* C7: in the constructor and after every onChange of one of the six
\* "Enabled" toggles, state.default.enabled is IsDefaultPipelineEnabled() and
\* each of the five flags is the pipeline's flag of that name, false when
\* there is no pipeline.
C7_DefaultStateMirrorsPipeline ==
    renderingCall.op \in {"constructor", "onChange"} =>
        /\ DOMAIN stateDefault = PipelineFlags \cup {"enabled"}
        /\ stateDefault.enabled = pipelineEnabled
        /\ \A flag \in PipelineFlags :
               stateDefault[flag] = IF DefaultPipeline = <<>> THEN FALSE
                                    ELSE DefaultPipeline[1][flag]

\* After the sharpen toggle was switched on: sharpen mirrored as on, bloom as off.
C7_Witness ==
    /\ renderingCall.op = "onChange"
    /\ renderingCall.property = "sharpenEnabled"
    /\ renderingCall.value
    /\ stateDefault.sharpenEnabled
    /\ ~stateDefault.bloomEnabled
    /\ renderingCall.value
    /\ DefaultPipeline # <<>>
    /\ stateDefault.sharpenEnabled
    /\ ~stateDefault.bloomEnabled

-----------------------------------------------------------------------------
(* Claims about ScriptInspector._getInspectorValues.                       *)

\* The zero of an exported type.
ZeroOf(type) ==
    CASE type = "number"  -> Num("0")
      [] type = "string"  -> Str("")
      [] type = "boolean" -> Bool("false")
      [] type = "Vector2" -> Obj(<<"x", "y">>, <<"0", "0">>)
      [] type = "Vector3" -> Obj(<<"x", "y", "z">>, <<"0", "0", "0">>)
      [] type = "Color3"  -> Obj(<<"r", "g", "b", "a">>, <<"0", "0", "0", "undefined">>)
      [] type = "Color4"  -> Obj(<<"r", "g", "b", "a">>, <<"0", "0", "0", "1">>)

\* The components of a value, whatever its keys are called.
Components(v) == v.vals

\* The components of the exported default of type `type`: those of the
\* default, and for a colour an alpha, undefined when the default has none.
DefaultComponents(type, d) ==
    IF type \in {"Color3", "Color4"} /\ Len(d.vals) = 3
        THEN Append(d.vals, "undefined")
        ELSE d.vals

\* The exported values the inspector has a widget for, in their order.
RECURSIVE WithWidget(_)
WithWidget(ivs) ==
    IF ivs = <<>> THEN <<>>
    ELSE IF Head(ivs).type \in WidgetTypes THEN <<Head(ivs)>> \o WithWidget(Tail(ivs))
    ELSE WithWidget(Tail(ivs))

\* Whether the properties `props` (<<>> or <<map>>) hold a value for `key`.
HadValue(props, key) ==
    /\ props # <<>>
    /\ key \in DOMAIN props[1]
    /\ props[1][key].value # Undefined

ExpectedWidget ==
    [number |-> "InspectorNumber", string |-> "InspectorString",
     boolean |-> "InspectorBoolean", Vector2 |-> "InspectorVector2",
     Vector3 |-> "InspectorVector3", Color3 |-> "InspectorColor", Color4 |-> "InspectorColor"]

\* C8: with a script selected and exported values to show, there is one
\* widget per exported value of a supported type, of the kind of the type, in
\* the order of state.inspectorValues, bound to properties[propertyKey].value;
\* a property that had no value has the exported default, or the zero of the
\* type; other types give no widget.
C8_OneWidgetPerExportedValue ==
    (exportedSection.rendered /\ scriptName # None /\ Len(inspectorValues) > 0) =>
        LET shown == WithWidget(inspectorValues)
            children == exportedSection.children
        IN  /\ exportedSection.defined
            /\ Len(children) = Len(shown)
            /\ \A i \in DOMAIN shown :
                   LET iv == shown[i]
                       value == scriptProperties[1][iv.propertyKey].value
                   IN  /\ children[i].widget = ExpectedWidget[iv.type]
                       /\ children[i].object = iv.propertyKey
                       /\ children[i].property = "value"
                       /\ IF HadValue(exportedSection.before, iv.propertyKey)
                              THEN value = exportedSection.before[1][iv.propertyKey].value
                          ELSE IF iv.defaultValue # Undefined
                              THEN /\ value.tag = iv.defaultValue.tag
                                   /\ Components(value) =
                                          DefaultComponents(iv.type, iv.defaultValue)
                          ELSE value = ZeroOf(iv.type)

\* Rendered: an export of a type without widget, then a Vector3 export with
\* a default and no saved value, which gets the only widget.
C8_Witness ==
    /\ exportedSection.rendered
    /\ scriptName # None
    /\ Len(inspectorValues) = 2
    /\ inspectorValues[1].type = "KeyMap"
    /\ inspectorValues[2].type = "Vector3"
    /\ inspectorValues[2].defaultValue # Undefined
    /\ ~HadValue(exportedSection.before, inspectorValues[2].propertyKey)
    /\ Len(exportedSection.children) = 1
    /\ exportedSection.children[1].widget = "InspectorVector3"

-----------------------------------------------------------------------------
(* Claims about the refreshing of the script.                              *)

NoRunInFlight == \A r \in RunIds : ~InFlight(r)

\* The step in which run r calls SandboxMain.GetInspectorValues.
CallsGetInspectorValues(r) == runs[r].pc # "getValues" /\ runs'[r].pc = "getValues"

\* C3: GetInspectorValues is never called for a compiled path that has not
\* been observed to exist and that no open watcher is on.
C3_ExtractsOnlyObservedOrWatched ==
    [][\A r \in RunIds :
           CallsGetInspectorValues(r) =>
               \/ runs'[r].jsPath \in observed'
               \/ runs'[r].jsPath \in OpenWatcherPaths']_vars

\* C4: with the component mounted and script s selected, a run started by a
\* "change" event of the watcher this._scriptWatcher refers to gets to store
\* the values extracted from the compiled file of s.
C4_ChangeLeadsToExtraction ==
    \A r \in RunIds, s \in ScriptPaths :
        (InFlight(r) /\ runs[r].cause = "change" /\ scriptName = s /\ isMounted)
            ~> \/ runs[r].pc = "done" /\ runs[r].jsPath = JsPathOf[s]
               \/ ~isMounted
               \/ scriptName # s

\* C5: with no run in flight, the values shown are those of the compiled file
\* of the selected script.
C5_ShownValuesAreOfSelectedScript ==
    (isMounted /\ NoRunInFlight /\ pendingRefreshes = 0 /\ scriptName # None
        /\ inspectorValues # <<>>)
        => inspectorValues = ExportsOf(JsPathOf[scriptName])

\* C6: state.refresing is true exactly while the script is refreshed. A run
\* that set it gets to set it back to false (it ends with the setState of
\* l.297), unless the component is unmounted or the compiled file of the
\* selected script is missing; and in a mounted component with "None"
\* selected and no run in flight, state.refresing is false.
C6_RefresingExactlyWhileRefreshed ==
    /\ \A r \in RunIds :
           InFlight(r) ~> \/ runs[r].pc = "done"
                          \/ ~isMounted
                          \/ scriptName = None
                          \/ JsPathOf[scriptName] \notin files
    /\ []((isMounted /\ scriptName = None /\ NoRunInFlight) => ~refresing)

\* The step in which a call of refreshAvailableScripts completes.
RefreshCompletes == pendingRefreshes' = pendingRefreshes - 1

\* The list of items is "None" followed by the scripts, in their order.
ItemsAreNoneThenScripts ==
    LET items == getScriptsListItems
    IN  /\ Len(items) = Len(scripts) + 1
        /\ items[1] = [label |-> None, data |-> None]
        /\ \A i \in DOMAIN scripts :
               items[i + 1].label = scripts[i] /\ items[i + 1].data = scripts[i]

\* C10 as stated: the items are "None" and then the scripts, in their order;
\* when refreshAvailableScripts completes, state.scripts is the list
\* GetAllScripts returned.
C10_RefreshSetsScripts ==
    /\ []ItemsAreNoneThenScripts
    /\ [][RefreshCompletes => scripts' = workspaceScripts]_vars

\* C10, amended: the items are "None" and then the scripts; when
\* refreshAvailableScripts completes in a mounted component, state.scripts is
\* the list GetAllScripts returned.
C10_ItemsAndRefreshWhileMounted ==
    /\ []ItemsAreNoneThenScripts
    /\ [][(RefreshCompletes /\ isMounted) => scripts' = workspaceScripts]_vars

\* A mounted component whose list holds the two scripts GetAllScripts returned.
C10_Witness ==
    /\ isMounted
    /\ Len(scripts) = 2
    /\ scripts = workspaceScripts
    /\ Len(getScriptsListItems) = 3

-----------------------------------------------------------------------------
(* Claims about the decorators and the watchers.                           *)

\* The step in which a run begins: it calls _refreshDecorators.
BeginsDecorators(r) == runs[r].pc # "readFile" /\ runs'[r].pc = "readFile"

\* C11: a run calls GetInspectorValues only after its own _refreshDecorators
\* has completed; a call of _updateScriptVisibleProperties made with "None"
\* selected begins no run, so neither decorators nor extraction.
C11_DecoratorsBeforeExtraction ==
    /\ [][\A r \in RunIds : CallsGetInspectorValues(r) => runs'[r].decorated]_vars
    /\ [][scriptName' = None => \A r \in RunIds : ~BeginsDecorators(r)]_vars
    /\ [](\A r \in RunIds : runs[r].pc \in {"readFile", "executeCode"} => ~runs[r].decorated)

\* With "None" selected after a script was, a run that started under the
\* script awaits GetInspectorValues, its decorators executed.
C11_Witness ==
    /\ scriptName = None
    /\ \E r \in RunIds : runs[r].pc = "getValues" /\ runs[r].decorated

\* C12: no watcher is open that this._scriptWatcher does not refer to, so at
\* most one watcher is open; a run sets this._scriptWatcher only when the
\* watcher it referred to is closed.
C12_OnlyTheTrackedWatcherIsOpen ==
    /\ [](leakedWatchers = {})
    /\ [][(scriptWatcher' # scriptWatcher /\ scriptWatcher' # <<>> /\ scriptWatcher'[1].open)
              => (scriptWatcher = <<>> \/ ~scriptWatcher[1].open)]_vars

\* The step in which a run calls watch(jsPath).
CallsWatch == scriptWatcher' # <<>> /\ scriptWatcher'[1].open /\ scriptWatcher' # scriptWatcher

\* C13: once the component is unmounted no watcher it created is open, and
\* no run calls watch or GetInspectorValues any more.
C13_NothingAfterUnmount ==
    /\ [](lifecycle = "unmounted" => OpenWatcherPaths = {})
    /\ [][lifecycle = "unmounted" =>
              /\ ~CallsWatch
              /\ \A r \in RunIds : ~CallsGetInspectorValues(r)]_vars

\* C14: with no run in flight (and no refresh about to start one), an open
\* watcher watches the compiled file of the selected script, and none is
\* open when "None" is selected.
C14_WatcherIsOnSelectedScript ==
    (NoRunInFlight /\ pendingRefreshes = 0) =>
        \A path \in OpenWatcherPaths :
            scriptName # None /\ path = JsPathOf[scriptName]

=============================================================================
